---- MODULE Spec2Model ----
(***************************************************************************)
(* Model of the Beatoven.ai client (beatoven_ai/client.py): the task       *)
(* lifecycle compose -> poll -> download of BeatovenClient.generate_music, *)
(* the three network operations it is built from, and their error          *)
(* handling.  The remote service, the file system and the caller are the   *)
(* environment: every action draws their behaviour from small sets.        *)
(***************************************************************************)
EXTENDS Integers, Sequences, FiniteSets, TLC

(***************************************************************************)
(* Bounds of the model.                                                    *)
(***************************************************************************)
\* polls explored per call of the poll loop
MaxPolls == 3
\* largest reading of the event-loop clock (whole seconds)
MaxClock == 1

\* the invocations of the client; Spec runs the first one alone
Flows == {1, 2}

(***************************************************************************)
(* Python values.  An optional argument is a record: given = FALSE is      *)
(* None.  Text is a sequence of tokens, so that a suffix test, a           *)
(* concatenation and a message prefix are computed, not assumed.           *)
(***************************************************************************)
NoneInt == [given |-> FALSE, v |-> 0]
SomeInt(n) == [given |-> TRUE, v |-> n]
NoneStr == [given |-> FALSE, v |-> ""]
SomeStr(s) == [given |-> TRUE, v |-> s]
NoneName == [given |-> FALSE, v |-> <<>>]
SomeName(s) == [given |-> TRUE, v |-> s]

\* Python truth value of an optional int / str / text: None, 0 and "" are false
TruthyInt(o) == o.given /\ o.v # 0
TruthyStr(o) == o.given /\ o.v # ""
TruthyName(o) == o.given /\ o.v # <<>>

\* settings.DEFAULT_DURATION, DEFAULT_FORMAT, OUTPUT_DIR, POLLING_INTERVAL
DEFAULT_DURATION == 180
DEFAULT_FORMAT == "mp3"
OUTPUT_DIR == "./"
POLLING_INTERVAL == 10

\* settings.API_URL
API_URL == "https://public-api.beatoven.ai/api/v1"

\* response.status == 200
HTTP_OK == 200
\* the non-200 answer of the tests (test_compose_track_error)
HTTP_BAD == 400

(***************************************************************************)
(* Exceptions: a type and a message (a sequence of message parts).         *)
(***************************************************************************)
Exc(type, msg) == [type |-> type, msg |-> msg]
NoExc == Exc("", <<>>)

\* the classes an exception type derives from (itself included)
Bases(type) ==
    CASE type = "BeatovenAIError" -> {"BeatovenAIError", "Exception", "BaseException"}
      [] type = "ClientConnectionError" ->
            {"ClientConnectionError", "ClientError", "Exception", "BaseException"}
      [] type = "ContentTypeError" ->
            {"ContentTypeError", "ClientError", "Exception", "BaseException"}
      [] type = "ClientPayloadError" ->
            {"ClientPayloadError", "ClientError", "Exception", "BaseException"}
      [] type = "CancelledError" -> {"CancelledError", "BaseException"}
      [] type = "KeyboardInterrupt" -> {"KeyboardInterrupt", "BaseException"}
      [] OTHER -> {type, "Exception", "BaseException"}

IsInstance(e, cls) == cls \in Bases(e.type)

\* str(e) of a library exception
LibMsg(type) == <<type>>
LibExc(type) == Exc(type, LibMsg(type))

BeatovenAIError(msg) == Exc("BeatovenAIError", msg)

(***************************************************************************)
(* Results of a call: a return value or a raised exception.                *)
(***************************************************************************)
NoMeta == [present |-> FALSE, keys |-> {}, track_url |-> NoneStr]
NoValue == [path |-> <<>>, task_id |-> "", status |-> "", meta |-> NoMeta]
Pending == [kind |-> "none", value |-> NoValue, exc |-> NoExc]
Return(v) == [kind |-> "return", value |-> v, exc |-> NoExc]
Raise(e) == [kind |-> "raise", value |-> NoValue, exc |-> e]

ReturnPath(p) == Return([NoValue EXCEPT !.path = p])
ReturnTask(t) == Return([NoValue EXCEPT !.task_id = t])
ReturnStatus(s, m) == Return([NoValue EXCEPT !.status = s, !.meta = m])

(***************************************************************************)
(* BeatovenClient.__init__: the key is the argument or, the argument being *)
(* None or empty, the configured one; no key at all is a ValueError.       *)
(***************************************************************************)
NoClient == [state |-> "none", api_key |-> "", api_url |-> ""]

\* mutant: the configured key is preferred to the argument
BeatovenClient_prefers_settings(api_key, API_KEY) ==
    LET key == IF API_KEY # "" THEN API_KEY ELSE api_key.v
    IN  IF key = ""
        THEN [res |-> Raise(LibExc("ValueError")), client |-> NoClient]
        ELSE [res |-> Return(NoValue),
              client |-> [state |-> "constructed", api_key |-> key, api_url |-> API_URL]]

\* BeatovenClient(api_key=api_key), the settings holding the key API_KEY
BeatovenClient(api_key, API_KEY) ==
    LET key == IF TruthyStr(api_key) THEN api_key.v ELSE API_KEY
    IN  IF key = ""
        THEN [res |-> Raise(LibExc("ValueError")), client |-> NoClient]
        ELSE [res |-> Return(NoValue),
              client |-> [state |-> "constructed", api_key |-> key, api_url |-> API_URL]]

\* mutant: every request carries the token
Authorization_on_every_request(op, c) == SomeName(<<"Bearer ", c.api_key>>)

\* the Authorization header of a request: compose_track and get_track_status
\* send headers={"Authorization": f"Bearer {self.api_key}"}, handle_track_file
\* sends no headers
Authorization(op, c) ==
    IF op \in {"submit", "poll"} THEN SomeName(<<"Bearer ", c.api_key>>) ELSE NoneName

(***************************************************************************)
(* Text helpers.                                                           *)
(***************************************************************************)
\* str.endswith
EndsWith(s, suf) ==
    /\ Len(s) >= Len(suf)
    /\ SubSeq(s, Len(s) - Len(suf) + 1, Len(s)) = suf

Digit(d) == <<"0", "1", "2", "3", "4", "5", "6", "7", "8", "9">>[d + 1]

\* f"{t:.0f}" of a clock reading of t whole seconds
RECURSIVE FormatTime(_)
FormatTime(t) == IF t < 10 THEN <<Digit(t)>> ELSE FormatTime(t \div 10) \o <<Digit(t % 10)>>

(***************************************************************************)
(* Domain model (beatoven_ai/models.py): TrackRequest, TaskResponse,       *)
(* TrackStatus validate on construction.                                   *)
(***************************************************************************)
MinDuration == 30
MaxDuration == 600
Formats == {"mp3", "wav", "ogg"}
\* the status values TrackStatus accepts; "other" stands for the further
\* server-defined values of the enum
StatusVocabulary == {"composing", "completed", "failed", "other"}

\* mutant: the duration is not validated
TrackRequest_any_duration(prompt, d, fm) ==
    IF prompt.given /\ fm \in Formats
    THEN Return(NoValue)
    ELSE Raise(LibExc("ValidationError"))

\* TrackRequest(prompt=TextPrompt(text=prompt), duration=d, format=fm)
TrackRequest(prompt, d, fm) ==
    IF prompt.given /\ MinDuration <= d /\ d <= MaxDuration /\ fm \in Formats
    THEN Return(NoValue)
    ELSE Raise(LibExc("ValidationError"))

\* the defaults of the fields of TrackRequest
TrackRequestDuration == 180
TrackRequestFormat == "mp3"

\* TrackRequest(prompt=..., duration=..., format=...), an argument that is
\* not supplied taking the default of its field: the result of the
\* construction and the fields of the request
TrackRequestWith(prompt, duration, fmt) ==
    LET d == IF duration.given THEN duration.v ELSE TrackRequestDuration
        fm == IF fmt.given THEN fmt.v ELSE TrackRequestFormat
    IN  [res |-> TrackRequest(prompt, d, fm), request |-> [duration |-> d, format |-> fm]]

\* TrackStatus(**data)
TrackStatus(data) ==
    IF data.status \in StatusVocabulary
    THEN ReturnStatus(data.status, data.meta)
    ELSE Raise(LibExc("ValidationError"))

(***************************************************************************)
(* The environment's answers.                                              *)
(***************************************************************************)
\* what a request can raise instead of answering
RequestErrors == {"ClientConnectionError", "TimeoutError", "CancelledError"}

NoResponse ==
    [ev |-> "raise", exc |-> "", status |-> 0, json |-> FALSE, text |-> "",
     task_id |-> NoneStr, data |-> [status |-> "", meta |-> NoMeta]]

RaisedBy(type) == [NoResponse EXCEPT !.exc = type]

\* answers to POST /tracks/compose
ComposeResponses ==
    {RaisedBy(t) : t \in RequestErrors}
    \cup {[NoResponse EXCEPT !.ev = "response", !.status = st, !.text = "not json"] :
            st \in {HTTP_OK, HTTP_BAD}}
    \cup {[NoResponse EXCEPT !.ev = "response", !.status = st, !.json = TRUE,
                             !.text = "body", !.task_id = t] :
            st \in {HTTP_OK, HTTP_BAD},
            t \in {NoneStr, SomeStr(""), SomeStr("t1")}}

Metas ==
    {NoMeta,
     [present |-> TRUE, keys |-> {}, track_url |-> NoneStr],
     [present |-> TRUE, keys |-> {"other"}, track_url |-> NoneStr],
     [present |-> TRUE, keys |-> {"track_url"}, track_url |-> NoneStr],
     [present |-> TRUE, keys |-> {"track_url"}, track_url |-> SomeStr("u1")]}

\* the meta a "composing" answer carries
ComposingMetas ==
    {NoMeta, [present |-> TRUE, keys |-> {"track_url"}, track_url |-> SomeStr("u1")]}

\* the status values a server can send; "invalid" is outside the vocabulary
ServerStatuses == StatusVocabulary \cup {"invalid"}

\* answers to GET /tasks/{task_id}
PollResponses ==
    {RaisedBy(t) : t \in RequestErrors}
    \cup {[NoResponse EXCEPT !.ev = "response", !.status = HTTP_OK, !.text = "not json"]}
    \cup {[NoResponse EXCEPT !.ev = "response", !.status = HTTP_BAD, !.text = "Not found"]}
\cup {[NoResponse EXCEPT !.ev = "response", !.status = HTTP_OK, !.json = TRUE,
                             !.text = "body", !.data = [status |-> s, meta |-> m]] :
            s \in ServerStatuses \ {"composing"}, m \in Metas}
    \cup {[NoResponse EXCEPT !.ev = "response", !.status = HTTP_OK, !.json = TRUE,
                             !.text = "body", !.data = [status |-> "composing", meta |-> m]] :
            m \in ComposingMetas}

(***************************************************************************)
(* The except clauses shared by the three operations: connection errors,   *)
(* other client errors, then every other Exception.  What is no Exception  *)
(* (a cancellation) propagates.                                            *)
(***************************************************************************)
ExceptClauses(e, connPrefix) ==
    IF IsInstance(e, "ClientConnectionError")
    THEN BeatovenAIError(<<connPrefix>> \o e.msg)
    ELSE IF IsInstance(e, "ClientError")
    THEN BeatovenAIError(<<"HTTP error: ">> \o e.msg)
    ELSE IF IsInstance(e, "Exception")
    THEN BeatovenAIError(<<"Unexpected error: ">> \o e.msg)
    ELSE e

\* the result r of a try body, through its except clauses
Guarded(r, connPrefix) ==
    IF r.kind = "raise" THEN Raise(ExceptClauses(r.exc, connPrefix)) ELSE r

(***************************************************************************)
(* compose_track                                                           *)
(***************************************************************************)
\* mutant: only the status is tested, not the task_id
compose_track_body_status_only(resp) ==
    IF resp.ev = "raise" THEN Raise(LibExc(resp.exc))
    ELSE IF ~resp.json THEN Raise(LibExc("ContentTypeError"))
    ELSE IF resp.status # HTTP_OK
    THEN Raise(BeatovenAIError(<<"Composition failed: ", resp.text>>))
    ELSE ReturnTask(resp.task_id.v)

\* the try body: session.post, response.json(), the status/task_id test
compose_track_body(resp) ==
    IF resp.ev = "raise" THEN Raise(LibExc(resp.exc))
    ELSE IF ~resp.json THEN Raise(LibExc("ContentTypeError"))
    ELSE IF resp.status # HTTP_OK \/ ~TruthyStr(resp.task_id)
    THEN Raise(BeatovenAIError(<<"Composition failed: ", resp.text>>))
    ELSE ReturnTask(resp.task_id.v)

compose_track(resp) ==
    Guarded(compose_track_body(resp), "Could not connect to Beatoven.ai: ")

(***************************************************************************)
(* get_track_status                                                        *)
(***************************************************************************)
\* mutant: the body is read as a status whatever the response status
get_track_status_body_ignores_status(resp) ==
    IF resp.ev = "raise" THEN Raise(LibExc(resp.exc))
    ELSE IF ~resp.json THEN Raise(LibExc("ContentTypeError"))
    ELSE TrackStatus(resp.data)

\* mutant: the body is returned as it is, without validation
get_track_status_body_unvalidated(resp) ==
    IF resp.ev = "raise" THEN Raise(LibExc(resp.exc))
    ELSE IF resp.status = HTTP_OK
    THEN IF ~resp.json THEN Raise(LibExc("ContentTypeError"))
         ELSE ReturnStatus(resp.data.status, resp.data.meta)
    ELSE Raise(BeatovenAIError(<<"Status check failed: ", resp.text>>))

get_track_status_body(resp) ==
    IF resp.ev = "raise" THEN Raise(LibExc(resp.exc))
    ELSE IF resp.status = HTTP_OK
    THEN IF ~resp.json THEN Raise(LibExc("ContentTypeError"))
         ELSE TrackStatus(resp.data)
    ELSE Raise(BeatovenAIError(<<"Status check failed: ", resp.text>>))

get_track_status(resp) ==
    Guarded(get_track_status_body(resp), "Could not connect: ")

(***************************************************************************)
(* watch_task_status: one iteration of the loop on the result r of         *)
(* get_track_status.  next = "sleep" keeps polling.                        *)
(***************************************************************************)
\* polling_interval = interval or self.settings.POLLING_INTERVAL
EffectiveInterval(interval) ==
    IF TruthyInt(interval) THEN interval.v ELSE POLLING_INTERVAL

\* mutants of the loop: it returns whatever the first poll answers; it treats
\* "failed" like a completed task; it polls again after a poll that raised
watch_task_status_returns_composing(r) ==
    IF r.kind = "raise" THEN [next |-> "end", result |-> r]
    ELSE IF r.value.status = "failed"
    THEN [next |-> "end", result |-> Raise(BeatovenAIError(<<"Task failed">>))]
    ELSE [next |-> "end", result |-> r]

watch_task_status_returns_failed(r) ==
    IF r.kind = "raise" THEN [next |-> "end", result |-> r]
    ELSE IF r.value.status = "composing" THEN [next |-> "sleep", result |-> Pending]
    ELSE [next |-> "end", result |-> r]

watch_task_status_retries_errors(r) ==
    IF r.kind = "raise" THEN [next |-> "sleep", result |-> Pending]
    ELSE IF r.value.status = "composing" THEN [next |-> "sleep", result |-> Pending]
    ELSE IF r.value.status = "failed"
    THEN [next |-> "end", result |-> Raise(BeatovenAIError(<<"Task failed">>))]
    ELSE [next |-> "end", result |-> r]

\* mutant: the loop gives up on a task that is still "composing"
watch_task_status_gives_up(r) ==
    IF r.kind = "raise" THEN [next |-> "end", result |-> r]
    ELSE IF r.value.status = "composing"
    THEN [next |-> "end", result |-> Raise(BeatovenAIError(<<"Timed out">>))]
    ELSE IF r.value.status = "failed"
    THEN [next |-> "end", result |-> Raise(BeatovenAIError(<<"Task failed">>))]
    ELSE [next |-> "end", result |-> r]

\* mutant: only "completed" ends the loop with a status
watch_task_status_completed_only(r) ==
    IF r.kind = "raise" THEN [next |-> "end", result |-> r]
    ELSE IF r.value.status = "composing" THEN [next |-> "sleep", result |-> Pending]
    ELSE IF r.value.status = "completed" THEN [next |-> "end", result |-> r]
    ELSE [next |-> "end", result |-> Raise(BeatovenAIError(<<"Task failed">>))]

watch_task_status(r) ==
    IF r.kind = "raise" THEN [next |-> "end", result |-> r]
    ELSE IF r.value.status = "composing" THEN [next |-> "sleep", result |-> Pending]
    ELSE IF r.value.status = "failed"
    THEN [next |-> "end", result |-> Raise(BeatovenAIError(<<"Task failed">>))]
    ELSE [next |-> "end", result |-> r]

(***************************************************************************)
(* handle_track_file                                                       *)
(***************************************************************************)
\* response bodies of a download, as sequences of bytes
Bodies == {<<"a", "b", "c">>, <<"x">>}

NoDownload ==
    [mkdir |-> TRUE, ev |-> "raise", exc |-> "", status |-> 0, text |-> "",
     open |-> TRUE, read |-> TRUE, body |-> <<>>, written |-> 0]

\* what the file system and the track host can do during one download:
\* mkdir fails; the request raises; a non-200 answer; on a 200 answer the
\* open fails, the read of the body fails, or `written` bytes get written
DownloadEnvs ==
    {[NoDownload EXCEPT !.mkdir = FALSE]}
    \cup {[NoDownload EXCEPT !.exc = t] : t \in RequestErrors}
    \cup {[NoDownload EXCEPT !.ev = "response", !.status = HTTP_BAD, !.text = "Not found"]}
    \cup {[NoDownload EXCEPT !.ev = "response", !.status = HTTP_OK, !.open = FALSE]}
    \cup {[NoDownload EXCEPT !.ev = "response", !.status = HTTP_OK, !.read = FALSE]}
    \cup UNION {{[NoDownload EXCEPT !.ev = "response", !.status = HTTP_OK, !.body = b,
                                     !.written = n] : n \in {0, 1, Len(b)}} : b \in Bodies}

\* output_dir = Path(output_path or self.settings.OUTPUT_DIR)
OutputDir(a) == IF TruthyStr(a.output_path) THEN a.output_path.v ELSE OUTPUT_DIR

\* mutant: the extension is appended to every name
FileName_always_appends(a, t) ==
    LET base == IF TruthyName(a.filename) THEN a.filename.v
                ELSE <<"composed_track_">> \o FormatTime(t)
    IN  base \o <<".", a.format>>

\* the generated name and the extension rule; t is the event-loop clock
FileName(a, t) ==
    LET base == IF TruthyName(a.filename) THEN a.filename.v
                ELSE <<"composed_track_">> \o FormatTime(t)
    IN  IF EndsWith(base, <<".", a.format>>) THEN base ELSE base \o <<".", a.format>>

\* file_path = output_dir / filename
FilePath(a, t) == <<OutputDir(a)>> \o FileName(a, t)

\* the try body: session.get, then open, read and write on a 200 answer
handle_track_file_body(a, env, t) ==
    IF ~a.track_url.given THEN Raise(LibExc("TypeError"))
    ELSE IF env.ev = "raise" THEN Raise(LibExc(env.exc))
    ELSE IF env.status = HTTP_OK
    THEN IF ~env.open THEN Raise(LibExc("OSError"))
         ELSE IF ~env.read THEN Raise(LibExc("ClientPayloadError"))
         ELSE IF env.written < Len(env.body) THEN Raise(LibExc("OSError"))
         ELSE ReturnPath(FilePath(a, t))
    ELSE Raise(BeatovenAIError(<<"Download failed: ", env.text>>))

\* output_dir.mkdir runs before the try
handle_track_file(a, env, t) ==
    IF ~env.mkdir THEN Raise(LibExc("OSError"))
    ELSE Guarded(handle_track_file_body(a, env, t), "Could not download file: ")

\* the directories after the call
handle_track_file_dirs(ds, a, env) == IF env.mkdir THEN ds \cup {OutputDir(a)} ELSE ds

\* mutant: the file is opened before the status is tested
handle_track_file_files_opens_before_status(fs, a, env, t) ==
    IF env.mkdir /\ a.track_url.given /\ env.ev = "response" /\ env.open
    THEN (FilePath(a, t) :> (IF env.read THEN SubSeq(env.body, 1, env.written) ELSE <<>>))
         @@ fs
    ELSE fs

\* the files after the call: open(file_path, "wb") creates or truncates the
\* file before the body is read, the write then stores `written` bytes
handle_track_file_files(fs, a, env, t) ==
    IF env.mkdir /\ a.track_url.given /\ env.ev = "response"
       /\ env.status = HTTP_OK /\ env.open
    THEN (FilePath(a, t) :> (IF env.read THEN SubSeq(env.body, 1, env.written) ELSE <<>>))
         @@ fs
    ELSE fs

(***************************************************************************)
(* generate_music                                                          *)
(***************************************************************************)
\* duration = duration or DEFAULT_DURATION; format = format or DEFAULT_FORMAT
EffectiveDuration(duration) == IF TruthyInt(duration) THEN duration.v ELSE DEFAULT_DURATION
EffectiveFormat(format) == IF TruthyStr(format) THEN format.v ELSE DEFAULT_FORMAT

\* mutant: only the presence of meta is tested
HasTrackUrl_meta_only(meta) == meta.present

\* final_status.meta and "track_url" in final_status.meta
HasTrackUrl(meta) == meta.present /\ meta.keys # {} /\ "track_url" \in meta.keys

NoTrackUrl == BeatovenAIError(<<"No track URL in the completion response">>)

\* mutant: no catch-all clause
generate_music_except_no_catch_all(e) == e

\* mutant: the catch-all clause also catches what is no Exception
generate_music_except_catches_cancellation(e) ==
    IF IsInstance(e, "BeatovenAIError") THEN e
    ELSE BeatovenAIError(<<"Music generation failed: ">> \o e.msg)

\* except BeatovenAIError: raise / except Exception: re-wrap
generate_music_except(e) ==
    IF IsInstance(e, "BeatovenAIError") THEN e
    ELSE IF IsInstance(e, "Exception")
    THEN BeatovenAIError(<<"Music generation failed: ">> \o e.msg)
    ELSE e

\* mutant: the request is built inside the try
generate_music_request_failure_in_try(e) == generate_music_except(e)

\* TrackRequest(...) is built before the session and the try: what it raises
\* reaches the caller as it is
generate_music_request_failure(e) == e

\* what generate_music hands to its caller for the result r of its try body
generate_music_exit(r) ==
    IF r.kind = "raise" THEN Raise(generate_music_except(r.exc)) ELSE r

\* async with aiohttp.ClientSession(): the session is closed on every exit
CloseSession(ss, id) == [ss EXCEPT ![id].state = "closed", ![id].closes = @ + 1]
\* mutant: the session is closed on the normal return only
session_exit_leaks_on_error(ss, id, r) ==
    IF r.kind = "raise" THEN ss ELSE CloseSession(ss, id)

session_exit(ss, id, r) == CloseSession(ss, id)

\* mutant: the caller's filename is not passed on
download_call_drops_filename(url, ar, fm) ==
    [track_url |-> url, output_path |-> ar.output_path, filename |-> NoneName,
     format |-> fm]

\* the call of handle_track_file in generate_music
download_call(url, ar, fm) ==
    [track_url |-> url, output_path |-> ar.output_path, filename |-> ar.filename,
     format |-> fm]

\* after watch_task_status returned final: download, or no track URL
generate_music_after_watch(final) ==
    IF HasTrackUrl(final.value.meta)
    THEN [next |-> "download", url |-> final.value.meta.track_url, result |-> Pending]
    ELSE [next |-> "end", url |-> NoneStr, result |-> Raise(NoTrackUrl)]

(***************************************************************************)
(* State.  Per invocation f: where it stands (pc), which entry point was   *)
(* called with which arguments, the local variables of generate_music and  *)
(* watch_task_status, the operations it has performed (trace: per call the *)
(* answer of the environment, resp, the result of the try body, inner, and *)
(* of the operation, res, and whether another invocation was asleep during *)
(* this and every earlier step, overlap)                                   *)
(* and what the caller got (outcome).  Shared: the session objects, the file system and *)
(* the last reading of the (monotonic) event-loop clock.                   *)
(***************************************************************************)
VARIABLES pc, entry, args, session, task_id, polling_interval, track_url,
          format, track_request, outcome, trace, sessions, files, dirs, now,
          client, cli, recording

vars == <<pc, entry, args, session, task_id, polling_interval, track_url,
          format, track_request, outcome, trace, sessions, files, dirs, now,
          client, cli, recording>>

NoArgs ==
    [prompt |-> NoneStr, duration |-> NoneInt, format |-> NoneStr,
     output_path |-> NoneStr, filename |-> NoneName, interval |-> NoneInt,
     task_id |-> "", track_url |-> NoneStr]

NoRequest == [duration |-> 0, format |-> ""]

NoEvent ==
    [op |-> "", sess |-> 0, open |-> FALSE, auth |-> NoneName, task |-> "",
     url |-> NoneStr, output_path |-> NoneStr, filename |-> NoneName,
     format |-> "", duration |-> 0, secs |-> 0, overlap |-> FALSE,
     resp |-> NoResponse, inner |-> Pending, res |-> Pending]

\* the arguments callers pass
Prompts == {NoneStr, SomeStr("prompt")}
Durations == {NoneInt, SomeInt(0), SomeInt(-5), SomeInt(29), SomeInt(180), SomeInt(601)}
FormatArgs == {NoneStr, SomeStr(""), SomeStr("mp3"), SomeStr("wav"), SomeStr("flac")}
OutputPaths == {NoneStr, SomeStr("out")}
FileNames == {NoneName, SomeName(<<"song">>), SomeName(<<"song", ".", "mp3">>)}
Intervals == {NoneInt, SomeInt(0), SomeInt(5)}

\* the key of the settings (BEATOVEN_API_KEY) of a configured installation
ConfiguredKey == "env-key"

\* the parsed command line: --api-key, --log-file, --duration, --format, --filename
NoCliArgs ==
    [api_key |-> NoneStr, log_file |-> NoneStr, duration |-> SomeInt(DEFAULT_DURATION),
     format |-> SomeStr(DEFAULT_FORMAT), filename |-> NoneName]

\* the command line entry point is not running
NoCli ==
    [pc |-> "off", args |-> NoCliArgs, API_KEY |-> ConfiguredKey, construction |-> Pending,
     interrupted |-> FALSE, code |-> 0, exc |-> NoExc]

OldContent == <<"o", "l", "d">>
EmptyFiles == [p \in {} |-> <<>>]
\* the files that exist before the first call
InitialFiles == (<<OUTPUT_DIR, "song", ".", "mp3">> :> OldContent) @@ EmptyFiles

Init ==
    /\ pc = [f \in Flows |-> IF f = 1 THEN "ready" ELSE "off"]
    /\ entry = [f \in Flows |-> ""]
    /\ args = [f \in Flows |-> NoArgs]
    /\ session = [f \in Flows |-> 0]
    /\ task_id = [f \in Flows |-> ""]
    /\ polling_interval = [f \in Flows |-> 0]
    /\ track_url = [f \in Flows |-> NoneStr]
    /\ format = [f \in Flows |-> ""]
    /\ track_request = [f \in Flows |-> NoRequest]
    /\ outcome = [f \in Flows |-> Pending]
    /\ trace = [f \in Flows |-> <<>>]
    /\ sessions = <<>>
    /\ files = InitialFiles
    /\ dirs = {OUTPUT_DIR}
    /\ now = 0
    /\ client = BeatovenClient(NoneStr, ConfiguredKey).client
    /\ cli = NoCli
    /\ recording = TRUE

OpenSession(owner) == [state |-> "open", closes |-> 0, owner |-> owner]

\* the invocations other than f that are suspended in their sleep
Asleep(f) == {g \in Flows \ {f} : pc[g] = "sleep"}

\* f has taken every step so far, the one it takes now included, while
\* another invocation was suspended in its sleep
Overlap(f) ==
    /\ Asleep(f) # {}
    /\ trace[f] # <<>> => trace[f][Len(trace[f])].overlap

Event(f, op) ==
    [NoEvent EXCEPT !.op = op, !.sess = session[f],
                    !.open = (sessions[session[f]].state = "open"),
                    !.overlap = Overlap(f),
                    !.auth = Authorization(op, client)]

Ops(f, op) == {i \in DOMAIN trace[f] : trace[f][i].op = op}
NumPolls(f) == Cardinality(Ops(f, "poll"))

\* the history of f gets the event ev.  A recorded run is kept whole and is
\* bounded by MaxPolls; of a run that is not recorded the history keeps
\* what happens up to poll MaxPolls, and the run goes on without bound
Log(f, ev) ==
    trace' = [trace EXCEPT ![f] =
                IF recording \/ NumPolls(f) < MaxPolls THEN Append(@, ev) ELSE @]

\* mutant: the sleep freezes the whole process, as time.sleep does: while one
\* invocation sleeps no other invocation runs
Runnable_unless_another_sleeps(f) == Asleep(f) = {}

\* the event loop: `await asyncio.sleep(...)` suspends the invocation that
\* awaits it and nothing else, so every invocation can be resumed
Runnable(f) == TRUE

\* the invocation ends with the result r of its body: generate_music applies
\* its except clauses and closes its session, a direct call hands r over
End(f, r) ==
    /\ pc' = [pc EXCEPT ![f] = "done"]
    /\ IF entry[f] = "generate_music"
       THEN /\ outcome' = [outcome EXCEPT ![f] = generate_music_exit(r)]
            /\ sessions' = session_exit(sessions, session[f], r)
       ELSE /\ outcome' = [outcome EXCEPT ![f] = r]
            /\ UNCHANGED sessions

(***************************************************************************)
(* The calls.                                                              *)
(***************************************************************************)
\* generate_music up to the acquisition of the session
CallGenerateMusicWith(f, prompts, durations, fmts, paths, names) ==
    /\ Runnable(f)
    /\ UNCHANGED <<client, cli, recording>>
    /\ pc[f] = "ready"
    /\ \E prompt \in prompts, duration \in durations, fmt \in fmts,
          output_path \in paths, filename \in names :
        LET d == EffectiveDuration(duration)
            fm == EffectiveFormat(fmt)
            req == TrackRequest(prompt, d, fm)
        IN  /\ entry' = [entry EXCEPT ![f] = "generate_music"]
            /\ args' = [args EXCEPT ![f] =
                          [NoArgs EXCEPT !.prompt = prompt, !.duration = duration,
                                         !.format = fmt, !.output_path = output_path,
                                         !.filename = filename]]
            /\ format' = [format EXCEPT ![f] = fm]
            /\ IF req.kind = "raise"
               THEN /\ pc' = [pc EXCEPT ![f] = "done"]
                    /\ outcome' = [outcome EXCEPT ![f] =
                                     Raise(generate_music_request_failure(req.exc))]
                    /\ UNCHANGED <<session, sessions, track_request>>
               ELSE /\ pc' = [pc EXCEPT ![f] = "compose"]
                    /\ sessions' = Append(sessions, OpenSession("generate_music"))
                    /\ session' = [session EXCEPT ![f] = Len(sessions) + 1]
                    /\ track_request' = [track_request EXCEPT ![f] =
                                           [duration |-> d, format |-> fm]]
                    /\ UNCHANGED outcome
    /\ UNCHANGED <<task_id, polling_interval, track_url, trace, files, dirs, now>>

CallGenerateMusic(f) ==
    CallGenerateMusicWith(f, Prompts, Durations, FormatArgs, OutputPaths, FileNames)

\* a direct call of one operation, on a session of the caller
CallDirect(f, name, a, first) ==
    /\ Runnable(f)
    /\ UNCHANGED <<client, cli, recording>>
    /\ pc[f] = "ready"
    /\ entry' = [entry EXCEPT ![f] = name]
    /\ args' = [args EXCEPT ![f] = a]
    /\ sessions' = Append(sessions, OpenSession("caller"))
    /\ session' = [session EXCEPT ![f] = Len(sessions) + 1]
    /\ pc' = [pc EXCEPT ![f] = first]
    /\ task_id' = [task_id EXCEPT ![f] = a.task_id]
    /\ polling_interval' = [polling_interval EXCEPT ![f] = EffectiveInterval(a.interval)]
    /\ track_url' = [track_url EXCEPT ![f] = a.track_url]
    /\ format' = [format EXCEPT ![f] = a.format.v]
    /\ track_request' = [track_request EXCEPT ![f] =
                           [duration |-> DEFAULT_DURATION, format |-> DEFAULT_FORMAT]]
    /\ UNCHANGED <<outcome, trace, files, dirs, now>>

CallComposeTrack(f) == CallDirect(f, "compose_track", NoArgs, "compose")

CallGetTrackStatus(f) ==
    CallDirect(f, "get_track_status", [NoArgs EXCEPT !.task_id = "t1"], "poll")

CallWatchTaskStatus(f) ==
    \E i \in Intervals :
        CallDirect(f, "watch_task_status",
                   [NoArgs EXCEPT !.task_id = "t1", !.interval = i], "poll")

\* the names handle_track_file is called with: also one that ends with the
\* extension in another casing
DirectFileNames == FileNames \cup {SomeName(<<"song", ".", "MP3">>)}

CallHandleTrackFile(f) ==
    \E output_path \in OutputPaths, filename \in DirectFileNames, fmt \in {"mp3", "wav"} :
        CallDirect(f, "handle_track_file",
                   [NoArgs EXCEPT !.track_url = SomeStr("u1"), !.output_path = output_path,
                                  !.filename = filename, !.format = SomeStr(fmt)],
                   "download")

\* the durations and formats a request is constructed with
RequestDurations == Durations \cup {SomeInt(30), SomeInt(600)}
RequestFormats == FormatArgs \cup {SomeStr("ogg")}

\* a caller constructs a TrackRequest itself
CallTrackRequest(f) ==
    /\ pc[f] = "ready"
    /\ Runnable(f)
    /\ UNCHANGED <<client, cli, recording>>
    /\ \E duration \in RequestDurations, fmt \in RequestFormats :
        LET c == TrackRequestWith(SomeStr("prompt"), duration, fmt)
        IN  /\ entry' = [entry EXCEPT ![f] = "TrackRequest"]
            /\ args' = [args EXCEPT ![f] =
                          [NoArgs EXCEPT !.prompt = SomeStr("prompt"),
                                         !.duration = duration, !.format = fmt]]
            /\ pc' = [pc EXCEPT ![f] = "done"]
            /\ outcome' = [outcome EXCEPT ![f] = c.res]
            /\ track_request' = [track_request EXCEPT ![f] =
                                   IF c.res.kind = "return" THEN c.request ELSE @]
    /\ UNCHANGED <<session, task_id, polling_interval, track_url, format, trace,
                   sessions, files, dirs, now>>

(***************************************************************************)
(* The steps.                                                              *)
(***************************************************************************)
\* compose_track and, in generate_music, the lines up to the poll loop
ComposeStepOn(f, responses) ==
    /\ Runnable(f)
    /\ UNCHANGED <<client, cli, recording>>
    /\ pc[f] = "compose"
    /\ \E resp \in responses :
        LET r == compose_track(resp)
        IN  /\ Log(f, [Event(f, "submit") EXCEPT !.duration = track_request[f].duration,
                                   !.format = track_request[f].format,
                                   !.resp = resp,
                                   !.inner = compose_track_body(resp),
                                   !.res = r])
            /\ IF r.kind = "return" /\ entry[f] = "generate_music"
               THEN /\ task_id' = [task_id EXCEPT ![f] = r.value.task_id]
                    /\ polling_interval' =
                         [polling_interval EXCEPT ![f] = EffectiveInterval(NoneInt)]
                    /\ pc' = [pc EXCEPT ![f] = "poll"]
                    /\ UNCHANGED <<outcome, sessions>>
               ELSE /\ End(f, r)
                    /\ UNCHANGED <<task_id, polling_interval>>
    /\ UNCHANGED <<entry, args, session, track_url, format, track_request, files, dirs, now>>

ComposeStep(f) == ComposeStepOn(f, ComposeResponses)

\* one get_track_status and what the loop, and generate_music after it, do
\* with its result
PollStepOn(f, responses) ==
    /\ Runnable(f)
    /\ UNCHANGED <<client, cli, recording>>
    /\ pc[f] = "poll"
    /\ recording => NumPolls(f) < MaxPolls
    /\ \E resp \in responses :
        LET r == get_track_status(resp)
            w == watch_task_status(r)
            g == generate_music_after_watch(w.result)
        IN  /\ Log(f, [Event(f, "poll") EXCEPT !.task = task_id[f],
                                               !.resp = resp,
                                               !.inner = get_track_status_body(resp),
                                               !.res = r])
            /\ IF entry[f] = "get_track_status"
               THEN End(f, r) /\ UNCHANGED track_url
               ELSE IF w.next = "sleep"
               THEN /\ pc' = [pc EXCEPT ![f] = "sleep"]
                    /\ UNCHANGED <<outcome, sessions, track_url>>
               ELSE IF entry[f] = "watch_task_status" \/ w.result.kind = "raise"
               THEN End(f, w.result) /\ UNCHANGED track_url
               ELSE IF g.next = "download"
               THEN /\ pc' = [pc EXCEPT ![f] = "download"]
                    /\ track_url' = [track_url EXCEPT ![f] = g.url]
                    /\ UNCHANGED <<outcome, sessions>>
               ELSE End(f, g.result) /\ UNCHANGED track_url
    /\ UNCHANGED <<entry, args, session, task_id, polling_interval, format,
                   track_request, files, dirs, now>>

PollStep(f) == PollStepOn(f, PollResponses)

\* await asyncio.sleep(polling_interval); a cancellation ends the wait
SleepStep(f) ==
    /\ Runnable(f)
    /\ UNCHANGED <<client, cli, recording>>
    /\ pc[f] = "sleep"
    /\ \E cancelled \in BOOLEAN :
        LET r == IF cancelled THEN Raise(LibExc("CancelledError")) ELSE Return(NoValue)
        IN  /\ Log(f, [Event(f, "sleep") EXCEPT !.secs = polling_interval[f], !.res = r])
            /\ IF cancelled
               THEN End(f, r)
               ELSE /\ pc' = [pc EXCEPT ![f] = "poll"]
                    /\ UNCHANGED <<outcome, sessions>>
    /\ UNCHANGED <<entry, args, session, task_id, polling_interval, track_url, format,
                   track_request, files, dirs, now>>

\* handle_track_file; t is what the event-loop clock reads during the call
DownloadStepOn(f, envs) ==
    /\ Runnable(f)
    /\ UNCHANGED <<client, cli, recording>>
    /\ pc[f] = "download"
    /\ \E env \in envs, t \in now..MaxClock :
        LET a == download_call(track_url[f], args[f], format[f])
            r == handle_track_file(a, env, t)
        IN  /\ now' = t
            /\ Log(f, [Event(f, "download") EXCEPT !.url = a.track_url,
                                                   !.output_path = a.output_path,
                                                   !.filename = a.filename,
                                                   !.format = a.format,
                                                   !.resp = env,
                                                   !.inner = IF env.mkdir
                                                             THEN handle_track_file_body(a, env, t)
                                                             ELSE Pending,
                                                   !.res = r])
            /\ dirs' = handle_track_file_dirs(dirs, a, env)
            /\ files' = handle_track_file_files(files, a, env, t)
            /\ End(f, r)
    /\ UNCHANGED <<entry, args, session, task_id, polling_interval, track_url, format,
                   track_request>>

DownloadStep(f) == DownloadStepOn(f, DownloadEnvs)

Next ==
    \/ \E f \in Flows : CallGenerateMusic(f)
    \/ \E f \in Flows : CallComposeTrack(f)
    \/ \E f \in Flows : CallGetTrackStatus(f)
    \/ \E f \in Flows : CallWatchTaskStatus(f)
    \/ \E f \in Flows : CallHandleTrackFile(f)
    \/ \E f \in Flows : CallTrackRequest(f)
    \/ \E f \in Flows : ComposeStep(f)
    \/ \E f \in Flows : PollStep(f)
    \/ \E f \in Flows : SleepStep(f)
    \/ \E f \in Flows : DownloadStep(f)

Spec == Init /\ [][Next]_vars

(***************************************************************************)
(* Two generate_music invocations of one client in one event loop.  The    *)
(* server gives each submission its own task, and each task its own track. *)
(***************************************************************************)
\* the task id the server issues to the submission of f
TaskOf(f) == IF f = 1 THEN "t1" ELSE "t2"
\* the track URL of a task, and the bytes served at a track URL
UrlOf(t) == IF t = "t1" THEN "u1" ELSE "u2"
TrackBody(u) == IF u = "u1" THEN <<"a", "b", "c">> ELSE <<"x">>

ConcurrentFileNames == {NoneName, SomeName(<<"song">>)}

\* answers to a submission the server gives the task t: accepted, or refused
SubmissionAnswers(t) ==
    {[NoResponse EXCEPT !.ev = "response", !.status = HTTP_OK, !.json = TRUE,
                        !.text = "body", !.task_id = SomeStr(t)],
     [NoResponse EXCEPT !.ev = "response", !.status = HTTP_BAD, !.json = TRUE,
                        !.text = "body"]}
FirstSubmissionAnswers == SubmissionAnswers("t1")
SecondSubmissionAnswers == SubmissionAnswers("t2")

\* answers to the submission of f
ConcurrentComposeResponses(f) ==
    IF TaskOf(f) = "t1" THEN FirstSubmissionAnswers ELSE SecondSubmissionAnswers

\* answers to a poll of f for the task it asks about: still composing, or
\* completed with the track of that task
ConcurrentPollResponses(f) ==
    {[NoResponse EXCEPT !.ev = "response", !.status = HTTP_OK, !.json = TRUE,
                        !.text = "body",
                        !.data = [status |-> "composing", meta |-> NoMeta]],
     [NoResponse EXCEPT !.ev = "response", !.status = HTTP_OK, !.json = TRUE,
                        !.text = "body",
                        !.data = [status |-> "completed",
                                  meta |-> [present |-> TRUE, keys |-> {"track_url"},
                                            track_url |-> SomeStr(UrlOf(task_id[f]))]]]}

\* the download of f: the bytes of the URL it asks for, or a non-200 answer
ConcurrentDownloadEnvs(f) ==
    {[NoDownload EXCEPT !.ev = "response", !.status = HTTP_OK,
                        !.body = TrackBody(track_url[f].v),
                        !.written = Len(TrackBody(track_url[f].v))],
     [NoDownload EXCEPT !.ev = "response", !.status = HTTP_BAD, !.text = "Not found"]}

InitConcurrent ==
    /\ pc = [f \in Flows |-> "ready"]
    /\ entry = [f \in Flows |-> ""]
    /\ args = [f \in Flows |-> NoArgs]
    /\ session = [f \in Flows |-> 0]
    /\ task_id = [f \in Flows |-> ""]
    /\ polling_interval = [f \in Flows |-> 0]
    /\ track_url = [f \in Flows |-> NoneStr]
    /\ format = [f \in Flows |-> ""]
    /\ track_request = [f \in Flows |-> NoRequest]
    /\ outcome = [f \in Flows |-> Pending]
    /\ trace = [f \in Flows |-> <<>>]
    /\ sessions = <<>>
    /\ files = InitialFiles
    /\ dirs = {OUTPUT_DIR}
    /\ now = 0
    /\ client = BeatovenClient(NoneStr, ConfiguredKey).client
    /\ cli = NoCli
    /\ recording = TRUE

\* generate_music(prompt) and generate_music(prompt, filename="song")
OnePrompt == {SomeStr("prompt")}
DurationUnset == {NoneInt}
Unset == {NoneStr}

ConcurrentCall(f) ==
    CallGenerateMusicWith(f, OnePrompt, DurationUnset, Unset, Unset, ConcurrentFileNames)
ConcurrentCompose(f) == ComposeStepOn(f, ConcurrentComposeResponses(f))
ConcurrentPoll(f) == PollStepOn(f, ConcurrentPollResponses(f))
ConcurrentDownload(f) == DownloadStepOn(f, ConcurrentDownloadEnvs(f))

NextConcurrent ==
    \/ \E f \in Flows : ConcurrentCall(f)
    \/ \E f \in Flows : ConcurrentCompose(f)
    \/ \E f \in Flows : ConcurrentPoll(f)
    \/ \E f \in Flows : SleepStep(f)
    \/ \E f \in Flows : ConcurrentDownload(f)

SpecConcurrent == InitConcurrent /\ [][NextConcurrent]_vars

(***************************************************************************)
(* One generate_music invocation whose poll loop is not bounded: the       *)
(* server may answer "composing" for ever.  Every awaited call is          *)
(* eventually resumed by the event loop with its answer or its failure.    *)
(***************************************************************************)
InitLive ==
    /\ pc = [f \in Flows |-> IF f = 1 THEN "ready" ELSE "off"]
    /\ entry = [f \in Flows |-> ""]
    /\ args = [f \in Flows |-> NoArgs]
    /\ session = [f \in Flows |-> 0]
    /\ task_id = [f \in Flows |-> ""]
    /\ polling_interval = [f \in Flows |-> 0]
    /\ track_url = [f \in Flows |-> NoneStr]
    /\ format = [f \in Flows |-> ""]
    /\ track_request = [f \in Flows |-> NoRequest]
    /\ outcome = [f \in Flows |-> Pending]
    /\ trace = [f \in Flows |-> <<>>]
    /\ sessions = <<>>
    /\ files = InitialFiles
    /\ dirs = {OUTPUT_DIR}
    /\ now = 0
    /\ client = BeatovenClient(NoneStr, ConfiguredKey).client
    /\ cli = NoCli
    /\ recording = FALSE

\* the poll answers that keep the loop running, and those that end it
ComposingResponses ==
    {resp \in PollResponses : /\ resp.ev = "response" /\ resp.status = HTTP_OK
                              /\ resp.json /\ resp.data.status = "composing"}
SettlingResponses == PollResponses \ ComposingResponses

\* generate_music(prompt) and generate_music(prompt, duration=29)
LiveDurations == {NoneInt, SomeInt(29)}

LiveCall(f) ==
    CallGenerateMusicWith(f, OnePrompt, LiveDurations, Unset, Unset, ConcurrentFileNames)
\* a poll the server answers "composing"
LivePollComposing(f) == PollStepOn(f, ComposingResponses)
\* a poll that fails or that the server answers with another status
LivePollSettles(f) == PollStepOn(f, SettlingResponses)

NextLive ==
    \/ \E f \in Flows : LiveCall(f)
    \/ \E f \in Flows : ComposeStep(f)
    \/ \E f \in Flows : LivePollComposing(f)
    \/ \E f \in Flows : LivePollSettles(f)
    \/ \E f \in Flows : SleepStep(f)
    \/ \E f \in Flows : DownloadStep(f)

\* every awaited call returns or fails
EveryCallEnds ==
    \A f \in Flows :
        /\ WF_vars(ComposeStep(f))
        /\ WF_vars(LivePollComposing(f) \/ LivePollSettles(f))
        /\ WF_vars(SleepStep(f))
        /\ WF_vars(DownloadStep(f))

SpecLive == InitLive /\ [][NextLive]_vars /\ EveryCallEnds

(***************************************************************************)
(* The command line entry point: main_async sets up the logger, constructs *)
(* the client, awaits generate_music and turns the outcome into an exit    *)
(* code.  The server of a command line run answers as in the concurrent    *)
(* specification.                                                          *)
(***************************************************************************)
\* what parse_args can hand over: --duration is any int, --format one of the
\* choices, --api-key and --log-file any string
CliApiKeys == {NoneStr, SomeStr(""), SomeStr("arg-key")}
SettingsKeys == {"", ConfiguredKey}
CliLogFiles == {NoneStr, SomeStr("run.log")}
CliDurations == {SomeInt(DEFAULT_DURATION), SomeInt(29)}
CliFormats == {SomeStr("mp3"), SomeStr("ogg")}
CliFileNames == {NoneName, SomeName(<<"song">>)}
\* --output, whose default is settings.OUTPUT_DIR
CliOutputs == {SomeStr(OUTPUT_DIR)}

InitCli ==
    /\ pc = [f \in Flows |-> "off"]
    /\ entry = [f \in Flows |-> ""]
    /\ args = [f \in Flows |-> NoArgs]
    /\ session = [f \in Flows |-> 0]
    /\ task_id = [f \in Flows |-> ""]
    /\ polling_interval = [f \in Flows |-> 0]
    /\ track_url = [f \in Flows |-> NoneStr]
    /\ format = [f \in Flows |-> ""]
    /\ track_request = [f \in Flows |-> NoRequest]
    /\ outcome = [f \in Flows |-> Pending]
    /\ trace = [f \in Flows |-> <<>>]
    /\ sessions = <<>>
    /\ files = InitialFiles
    /\ dirs = {OUTPUT_DIR}
    /\ now = 0
    /\ client = NoClient
    /\ recording = TRUE
    /\ \E api_key \in CliApiKeys, key \in SettingsKeys, log_file \in CliLogFiles,
          duration \in CliDurations, fmt \in CliFormats, filename \in CliFileNames :
        cli = [NoCli EXCEPT !.pc = "setup_logger", !.API_KEY = key,
                            !.args = [api_key |-> api_key, log_file |-> log_file,
                                      duration |-> duration, format |-> fmt,
                                      filename |-> filename]]

\* setup_logger(log_level, log_file): with a log file it makes the parent
\* directory and opens the file, which the file system can refuse
setup_logger(log_file, writable) ==
    IF TruthyStr(log_file) /\ ~writable THEN Raise(LibExc("OSError")) ELSE Return(NoValue)

\* mutant: every exception ends main_async with the code 1, a
\* KeyboardInterrupt and a cancellation included
main_async_except_catches_everything(c, r) ==
    IF r.kind = "return" THEN [c EXCEPT !.pc = "exited", !.code = 0]
    ELSE [c EXCEPT !.pc = "exited", !.code = 1, !.exc = r.exc]

\* the try of main_async left with r: return 0, or the except clauses
\* BeatovenAIError, KeyboardInterrupt, Exception; anything else escapes
main_async_except(c, r) ==
    IF r.kind = "return" THEN [c EXCEPT !.pc = "exited", !.code = 0]
    ELSE IF IsInstance(r.exc, "BeatovenAIError")
    THEN [c EXCEPT !.pc = "exited", !.code = 1, !.exc = r.exc]
    ELSE IF IsInstance(r.exc, "KeyboardInterrupt")
    THEN [c EXCEPT !.pc = "exited", !.code = 130, !.exc = r.exc]
    ELSE IF IsInstance(r.exc, "Exception")
    THEN [c EXCEPT !.pc = "exited", !.code = 1, !.exc = r.exc]
    ELSE [c EXCEPT !.pc = "escaped", !.exc = r.exc]

\* the lines of main_async before the try: an exception of setup_logger is
\* under no except clause
SetupLogger ==
    /\ cli.pc = "setup_logger"
    /\ \E writable \in BOOLEAN :
        LET r == setup_logger(cli.args.log_file, writable)
        IN  cli' = IF r.kind = "raise"
                   THEN [cli EXCEPT !.pc = "escaped", !.exc = r.exc]
                   ELSE [cli EXCEPT !.pc = "construct"]
    /\ UNCHANGED <<pc, entry, args, session, task_id, polling_interval, track_url, format,
                   track_request, outcome, trace, sessions, files, dirs, now, client,
                   recording>>

\* client = BeatovenClient(api_key=args.api_key), inside the try
Construct ==
    /\ cli.pc = "construct"
    /\ LET c == BeatovenClient(cli.args.api_key, cli.API_KEY)
       IN  /\ client' = c.client
           /\ IF c.res.kind = "raise"
              THEN /\ cli' = [main_async_except(cli, c.res) EXCEPT !.construction = c.res]
                   /\ UNCHANGED pc
              ELSE /\ cli' = [cli EXCEPT !.pc = "run", !.construction = c.res]
                   /\ pc' = [pc EXCEPT ![1] = "ready"]
    /\ UNCHANGED <<entry, args, session, task_id, polling_interval, track_url, format,
                   track_request, outcome, trace, sessions, files, dirs, now, recording>>

\* await client.generate_music(prompt, duration, format, output_path, filename)
CliCall(f) ==
    /\ cli.pc = "run"
    /\ CallGenerateMusicWith(f, OnePrompt, {cli.args.duration}, {cli.args.format},
                             CliOutputs, {cli.args.filename})

\* the user interrupts the run while generate_music awaits.  What reaches the
\* coroutine depends on the interpreter and on where the signal lands: the
\* KeyboardInterrupt itself, or the CancelledError of the task asyncio.run
\* cancels.  generate_music catches neither and closes its session.
Interrupt(f) ==
    /\ cli.pc = "run" /\ ~cli.interrupted
    /\ pc[f] \in {"compose", "poll", "sleep", "download"}
    /\ \E delivered \in {"KeyboardInterrupt", "CancelledError"} :
        End(f, Raise(LibExc(delivered)))
    /\ cli' = [cli EXCEPT !.interrupted = TRUE]
    /\ UNCHANGED <<entry, args, session, task_id, polling_interval, track_url, format,
                   track_request, trace, files, dirs, now, client, recording>>

\* generate_music has ended: return 0, or the except clause of its exception
CliExit ==
    /\ cli.pc = "run" /\ pc[1] = "done"
    /\ cli' = main_async_except(cli, outcome[1])
    /\ UNCHANGED <<pc, entry, args, session, task_id, polling_interval, track_url, format,
                   track_request, outcome, trace, sessions, files, dirs, now, client,
                   recording>>

NextCli ==
    \/ SetupLogger
    \/ Construct
    \/ \E f \in Flows : CliCall(f)
    \/ \E f \in Flows : ConcurrentCompose(f)
    \/ \E f \in Flows : ConcurrentPoll(f)
    \/ \E f \in Flows : SleepStep(f)
    \/ \E f \in Flows : ConcurrentDownload(f)
    \/ \E f \in Flows : Interrupt(f)
    \/ CliExit

SpecCli == InitCli /\ [][NextCli]_vars

(***************************************************************************)
(* Properties.                                                             *)
(***************************************************************************)
Ended(f) == pc[f] = "done"
IsGenerateMusic(f) == entry[f] = "generate_music"
\* the invocations that run the poll loop
RunsLoop(f) == entry[f] \in {"generate_music", "watch_task_status"}
Returned(f) == Ended(f) /\ outcome[f].kind = "return"
RaisedTo(f) == Ended(f) /\ outcome[f].kind = "raise"
DomainError(e) == e.type = "BeatovenAIError"

\* event i of f is a poll that answered status s
PollAnswered(f, i, s) ==
    /\ trace[f][i].op = "poll"
    /\ trace[f][i].res.kind = "return"
    /\ trace[f][i].res.value.status = s

\* event i of f is a poll that ended the loop: it raised or answered a status
\* other than "composing"
TerminalPoll(f, i) ==
    /\ trace[f][i].op = "poll"
    /\ ~PollAnswered(f, i, "composing")

\* C1: a generate_music that returns a value has performed: one submit, then
\* polls (with sleeps between them), then one download, in this order; the
\* download got the track_url of the terminal status and the caller's
\* output_path and filename; the value returned is the download's path.
C1_ReturnedRunIsSubmitPollsDownload ==
    \A f \in Flows :
        (IsGenerateMusic(f) /\ Returned(f)) =>
            LET tr == trace[f]
                n == Len(tr)
            IN  /\ n >= 3
                /\ tr[1].op = "submit" /\ tr[1].res.kind = "return"
                /\ \A i \in 2..(n - 1) : tr[i].op \in {"poll", "sleep"}
                /\ tr[2].op = "poll"
                /\ TerminalPoll(f, n - 1) /\ tr[n - 1].res.kind = "return"
                /\ tr[n].op = "download" /\ tr[n].res.kind = "return"
                /\ Cardinality(Ops(f, "submit")) = 1
                /\ Cardinality(Ops(f, "download")) = 1
                /\ Cardinality(Ops(f, "poll")) >= 1
                /\ tr[n].url = tr[n - 1].res.value.meta.track_url
                /\ tr[n].output_path = args[f].output_path
                /\ tr[n].filename = args[f].filename
                /\ outcome[f].value.path = tr[n].res.value.path
                /\ outcome[f].value.path # <<>>

\* a generate_music given a filename returned after two "composing" polls
C1_Witness ==
    \E f \in Flows :
        /\ IsGenerateMusic(f) /\ Returned(f)
        /\ NumPolls(f) = 3
        /\ args[f].filename.given

\* C2: the poll loop keeps polling on "composing", raises the domain error on
\* "failed" and returns every other status: a "composing" poll is followed by
\* a sleep and the loop goes on, nothing follows a terminal poll but the
\* download of generate_music, a "failed" poll ends the call with the error
\* "Task failed", and the status watch_task_status returns is the one of its
\* last poll and is neither "composing" nor "failed".
C2_PollLoopStateMachine ==
    \A f \in Flows :
        RunsLoop(f) =>
            LET tr == trace[f]
                n == Len(tr)
            IN  /\ \A i \in DOMAIN tr :
                    /\ PollAnswered(f, i, "composing") =>
                         IF i = n THEN pc[f] = "sleep" ELSE tr[i + 1].op = "sleep"
                    /\ (tr[i].op = "sleep" /\ i = n /\ tr[i].res.kind = "return") =>
                         pc[f] = "poll"
                    /\ TerminalPoll(f, i) => \A j \in (i + 1)..n : tr[j].op = "download"
                    /\ PollAnswered(f, i, "failed") =>
                         /\ RaisedTo(f)
                         /\ outcome[f].exc = BeatovenAIError(<<"Task failed">>)
                /\ (entry[f] = "watch_task_status" /\ Returned(f)) =>
                    /\ outcome[f].value.status \notin {"composing", "failed"}
                    /\ tr[n].op = "poll"
                    /\ outcome[f] = tr[n].res

\* watch_task_status returned a status after a "composing" poll
C2_Witness ==
    \E f \in Flows :
        /\ entry[f] = "watch_task_status" /\ Returned(f)
        /\ NumPolls(f) >= 2
        /\ outcome[f].value.status = "other"

\* the interval the sleeps of f last according to C3: the interval argument
\* when given, otherwise the configured polling interval
ClaimedInterval(f) ==
    IF args[f].interval.given THEN args[f].interval.v ELSE POLLING_INTERVAL

\* the loop of f has ended on a poll that answered a terminal status
LoopAnswered(f) ==
    /\ RunsLoop(f)
    /\ \E i \in DOMAIN trace[f] : TerminalPoll(f, i) /\ trace[f][i].res.kind = "return"

\* the polls and sleeps of a loop that ended on an answer: k + 1 polls and k
\* sleeps of `secs` seconds, every sleep directly after a "composing" poll and
\* directly before the next poll
SleepsBetweenPolls(f, secs) ==
    LET tr == trace[f]
        n == Len(tr)
    IN  /\ Cardinality(Ops(f, "poll")) = Cardinality(Ops(f, "sleep")) + 1
        /\ Cardinality(Ops(f, "sleep")) =
             Cardinality({i \in DOMAIN tr : PollAnswered(f, i, "composing")})
        /\ \A i \in Ops(f, "sleep") :
            /\ tr[i].secs = secs
            /\ i > 1 /\ PollAnswered(f, i - 1, "composing")
            /\ i < n /\ tr[i + 1].op = "poll"

\* C3: k "composing" polls and one terminal answer make k + 1 polls and k
\* sleeps, each sleep lasting the interval argument when given and otherwise
\* the configured polling interval, each directly after a "composing" poll and
\* before the next poll.
C3_SleepsLastTheGivenInterval ==
    \A f \in Flows : LoopAnswered(f) => SleepsBetweenPolls(f, ClaimedInterval(f))

\* C3, as the code has it: the sleeps last `interval or POLLING_INTERVAL`, so
\* that an interval of 0 is replaced by the configured one.
C3_SleepsLastTheEffectiveInterval ==
    \A f \in Flows :
        LoopAnswered(f) => SleepsBetweenPolls(f, EffectiveInterval(args[f].interval))

\* C4: once a poll of generate_music answered "failed", the call has raised
\* the domain error and no download was invoked, whatever preceded the poll
\* and whatever meta the answer carries.
C4_FailedTaskRaisesWithoutDownload ==
    \A f \in Flows :
        (IsGenerateMusic(f) /\ \E i \in DOMAIN trace[f] : PollAnswered(f, i, "failed")) =>
            /\ RaisedTo(f)
            /\ DomainError(outcome[f].exc)
            /\ Ops(f, "download") = {}

\* "failed" with a track_url in its meta, after "composing" polls
C4_Witness ==
    \E f \in Flows :
        /\ IsGenerateMusic(f)
        /\ \E i \in DOMAIN trace[f] :
            /\ i >= 4
            /\ PollAnswered(f, i, "failed")
            /\ trace[f][i].res.value.meta.track_url.given

\* the meta of a status is absent, empty or without the track_url entry
LacksTrackUrl(meta) == ~meta.present \/ meta.keys = {} \/ "track_url" \notin meta.keys

\* event i of f is a poll that answered a terminal status other than "failed"
CompletedPoll(f, i) ==
    /\ TerminalPoll(f, i)
    /\ trace[f][i].res.kind = "return"
    /\ ~PollAnswered(f, i, "failed")

\* C5: when the loop of generate_music ends in a terminal non-failed status
\* whose meta is absent, empty or without track_url, the call raises the
\* domain error "No track URL in the completion response", which differs from
\* the error of a failed task, and no download is invoked.
C5_MissingTrackUrlRaisesItsOwnError ==
    \A f \in Flows :
        \A i \in DOMAIN trace[f] :
            (IsGenerateMusic(f) /\ CompletedPoll(f, i)
               /\ LacksTrackUrl(trace[f][i].res.value.meta)) =>
                /\ RaisedTo(f)
                /\ DomainError(outcome[f].exc)
                /\ outcome[f].exc.msg = <<"No track URL in the completion response">>
                /\ outcome[f].exc # BeatovenAIError(<<"Task failed">>)
                /\ Ops(f, "download") = {}

\* a completed status whose meta holds other entries only
C5_Witness ==
    \E f \in Flows :
        /\ IsGenerateMusic(f) /\ RaisedTo(f)
        /\ \E i \in DOMAIN trace[f] :
            /\ CompletedPoll(f, i)
            /\ trace[f][i].res.value.meta.keys = {"other"}

\* the request of f passes the validation of TrackRequest
ValidRequest(f) ==
    /\ args[f].prompt.given
    /\ EffectiveDuration(args[f].duration) \in MinDuration..MaxDuration
    /\ EffectiveFormat(args[f].format) \in Formats

\* an operation or a sleep of f was cancelled
Cancelled(f) ==
    \E i \in DOMAIN trace[f] :
        trace[f][i].res.kind = "raise" /\ trace[f][i].res.exc.type = "CancelledError"

\* C6: for every input, a generate_music that ended returned a path or raised
\* the domain error, nothing else.
C6_OnlyPathOrDomainError ==
    \A f \in Flows :
        (IsGenerateMusic(f) /\ Ended(f)) =>
            \/ outcome[f].kind = "return" /\ outcome[f].value.path # <<>>
            \/ outcome[f].kind = "raise" /\ DomainError(outcome[f].exc)

\* C6, amended: a request that fails validation raises the validation error
\* before the session is acquired and before any operation; for a valid
\* request, a generate_music that was not cancelled returned a path or raised
\* the domain error.
C6_OnlyPathOrDomainErrorOnceValidated ==
    \A f \in Flows :
        (IsGenerateMusic(f) /\ Ended(f)) =>
            /\ ~ValidRequest(f) =>
                /\ outcome[f] = Raise(LibExc("ValidationError"))
                /\ trace[f] = <<>>
                /\ session[f] = 0
            /\ (ValidRequest(f) /\ ~Cancelled(f)) =>
                \/ outcome[f].kind = "return" /\ outcome[f].value.path # <<>>
                \/ outcome[f].kind = "raise" /\ DomainError(outcome[f].exc)

\* a non-domain exception (mkdir failed in the download) was re-wrapped
C6_Witness ==
    \E f \in Flows :
        /\ IsGenerateMusic(f) /\ RaisedTo(f)
        /\ outcome[f].exc =
             BeatovenAIError(<<"Music generation failed: ">> \o LibMsg("OSError"))

\* C7: a domain error raised inside compose_track, get_track_status,
\* handle_track_file or watch_task_status is what the caller gets, with the
\* same message.
C7_DomainErrorReachesCallerUnchanged ==
    \A f \in Flows :
        \A i \in DOMAIN trace[f] :
            /\ (trace[f][i].inner.kind = "raise" /\ DomainError(trace[f][i].inner.exc)) =>
                 (RaisedTo(f) /\ outcome[f].exc = trace[f][i].inner.exc)
            /\ (RunsLoop(f) /\ PollAnswered(f, i, "failed")) =>
                 (RaisedTo(f) /\ outcome[f].exc = BeatovenAIError(<<"Task failed">>))

\* the three operations called directly
IsDirectOperation(f) ==
    entry[f] \in {"compose_track", "get_track_status", "handle_track_file"}

\* C8: an operation called directly that fails (and was not cancelled) raises
\* the domain error, whatever the cause of the failure.
C8_OperationsRaiseOnlyDomainError ==
    \A f \in Flows :
        (IsDirectOperation(f) /\ RaisedTo(f) /\ outcome[f].exc.type # "CancelledError") =>
            DomainError(outcome[f].exc)

\* the sessions generate_music has acquired
Acquired == {id \in DOMAIN sessions : sessions[id].owner = "generate_music"}

\* C9: generate_music acquires one session, passes it, open, to every
\* operation, and has closed it exactly once when it has ended, on every exit
\* path; until then it is open.
C9_SessionScopedToInvocation ==
    /\ Cardinality(Acquired) = Cardinality({f \in Flows : IsGenerateMusic(f) /\ session[f] # 0})
    /\ \A f \in Flows :
        IsGenerateMusic(f) =>
            /\ session[f] = 0 => (trace[f] = <<>> /\ outcome[f].kind # "return")
            /\ session[f] # 0 =>
                /\ session[f] \in Acquired
                /\ \A i \in DOMAIN trace[f] :
                    trace[f][i].sess = session[f] /\ trace[f][i].open
                /\ IF Ended(f)
                   THEN sessions[session[f]] =
                          [state |-> "closed", closes |-> 1, owner |-> "generate_music"]
                   ELSE sessions[session[f]] =
                          [state |-> "open", closes |-> 0, owner |-> "generate_music"]

\* generate_music ended by a cancellation during a sleep, after a poll
C9_Witness ==
    \E f \in Flows :
        /\ IsGenerateMusic(f) /\ RaisedTo(f)
        /\ outcome[f].exc.type = "CancelledError"
        /\ trace[f][Len(trace[f])].op = "sleep"
        /\ sessions[session[f]].state = "closed"

\* C10: in generate_music an operation that raised is the last one and the
\* call has raised; submit and download happen at most once; a poll follows
\* either the submit that returned or a sleep after a "composing" poll.
C10_NoRetryAfterFailure ==
    \A f \in Flows :
        IsGenerateMusic(f) =>
            LET tr == trace[f]
                n == Len(tr)
            IN  /\ \A i \in DOMAIN tr :
                    tr[i].res.kind = "raise" => (i = n /\ RaisedTo(f))
                /\ Cardinality(Ops(f, "submit")) <= 1
                /\ Cardinality(Ops(f, "download")) <= 1
                /\ \A i \in Ops(f, "poll") :
                    \/ i = 2 /\ tr[1].op = "submit" /\ tr[1].res.kind = "return"
                    \/ i > 2 /\ tr[i - 1].op = "sleep" /\ PollAnswered(f, i - 2, "composing")

\* a poll failed after two "composing" polls and the call has raised
C10_Witness ==
    \E f \in Flows :
        /\ IsGenerateMusic(f) /\ RaisedTo(f)
        /\ Len(trace[f]) = 6
        /\ trace[f][6].op = "poll"
        /\ trace[f][6].res.kind = "raise"

\* every poll f has issued answered "composing"
AllComposing(f) ==
    /\ Ops(f, "poll") # {}
    /\ \A i \in Ops(f, "poll") : PollAnswered(f, i, "composing")

\* C11: the poll loop has no attempt limit and no timeout: as long as every
\* poll answered "composing" (and no sleep was cancelled) the call has neither
\* returned nor raised, whatever the number of polls; it alternates between
\* poll and sleep: after a poll it sleeps, after a sleep it polls again.
C11_ComposingKeepsTheLoopRunning ==
    \A f \in Flows :
        (RunsLoop(f) /\ AllComposing(f) /\ ~Cancelled(f)) =>
            LET tr == trace[f]
                n == Len(tr)
            IN  /\ ~Ended(f)
                /\ outcome[f] = Pending
                /\ pc[f] \in {"poll", "sleep"}
                /\ pc[f] = "sleep" <=> tr[n].op = "poll"
                /\ pc[f] = "poll" <=> tr[n].op = "sleep"
                /\ \A i \in Ops(f, "poll") : i < n => tr[i + 1].op = "sleep"
                /\ \A i \in Ops(f, "sleep") : i < n => tr[i + 1].op = "poll"
                /\ Ops(f, "download") = {}

\* as many "composing" polls as the model explores, and the loop goes on
C11_Witness ==
    \E f \in Flows :
        /\ RunsLoop(f) /\ AllComposing(f)
        /\ NumPolls(f) = MaxPolls
        /\ pc[f] = "sleep"
        /\ outcome[f] = Pending

\* event i of f is a poll request or a sleep that a cancellation interrupted
CancelledWait(f, i) ==
    \/ /\ trace[f][i].op = "poll"
       /\ trace[f][i].resp.ev = "raise"
       /\ trace[f][i].resp.exc = "CancelledError"
    \/ /\ trace[f][i].op = "sleep"
       /\ trace[f][i].res.kind = "raise"

\* C12: a cancellation delivered while generate_music waits in the poll loop,
\* during a poll request or during the sleep, ends the wait: nothing follows
\* the interrupted poll or sleep (no further poll, no download), the caller
\* gets the cancellation itself, not the domain error, and the session has
\* been closed.
C12_CancellationAbortsTheWait ==
    \A f \in Flows :
        \A i \in DOMAIN trace[f] :
            (IsGenerateMusic(f) /\ CancelledWait(f, i)) =>
                /\ i = Len(trace[f])
                /\ trace[f][i].res = Raise(LibExc("CancelledError"))
                /\ Ended(f)
                /\ outcome[f] = Raise(LibExc("CancelledError"))
                /\ ~DomainError(outcome[f].exc)
                /\ Ops(f, "download") = {}
                /\ sessions[session[f]].state = "closed"
                /\ sessions[session[f]].closes = 1

\* generate_music cancelled during a poll request, after a sleep
C12_Witness ==
    \E f \in Flows :
        /\ IsGenerateMusic(f) /\ Ended(f)
        /\ Len(trace[f]) >= 4
        /\ trace[f][Len(trace[f])].op = "poll"
        /\ CancelledWait(f, Len(trace[f]))
        /\ outcome[f].exc.type = "CancelledError"

\* f polls the task its own submission returned, downloads the URL of its own
\* terminal status and performs every operation on its own session, which no
\* other invocation has
UsesOnlyItsOwn(f) ==
    LET tr == trace[f]
    IN  /\ \A i \in Ops(f, "poll") :
            /\ tr[i].task = tr[1].res.value.task_id
            /\ tr[i].task = TaskOf(f)
        /\ \A i \in Ops(f, "download") :
            /\ tr[i].url = tr[i - 1].res.value.meta.track_url
            /\ tr[i].url = SomeStr(UrlOf(TaskOf(f)))
        /\ \A i \in DOMAIN tr : tr[i].sess = session[f]
        /\ session[f] # 0 => \A g \in Flows \ {f} : session[g] # session[f]

\* the callers of f and g named the same file themselves
SameNameGiven(f, g) ==
    /\ args[f].filename.given
    /\ args[g].filename = args[f].filename

\* C13: two concurrent generate_music invocations are independent: each polls
\* its own task, downloads the URL of its own terminal status on its own
\* session; the file at the path an invocation returned holds the track of
\* its own task, as if it had run alone (unless the callers named the same
\* file); two invocations that leave filename unset return different paths.
C13_ConcurrentInvocationsIndependent ==
    \A f \in Flows :
        IsGenerateMusic(f) =>
            /\ UsesOnlyItsOwn(f)
            /\ \A g \in Flows \ {f} :
                /\ (Returned(f) /\ ~SameNameGiven(f, g)) =>
                     files[outcome[f].value.path] = TrackBody(UrlOf(TaskOf(f)))
                /\ (Returned(f) /\ Returned(g)
                      /\ ~args[f].filename.given /\ ~args[g].filename.given) =>
                     outcome[f].value.path # outcome[g].value.path

\* C13, the part that holds under every interleaving: each invocation uses
\* its own task id, track URL and session only.
C13_EachUsesItsOwnTaskUrlSession ==
    \A f \in Flows : IsGenerateMusic(f) => UsesOnlyItsOwn(f)

\* the step invocation g is waiting to take can be taken now
CanTakeItsStep(g) ==
    /\ pc[g] = "ready" => ENABLED ConcurrentCall(g)
    /\ pc[g] = "compose" => ENABLED ConcurrentCompose(g)
    /\ (pc[g] = "poll" /\ NumPolls(g) < MaxPolls) => ENABLED ConcurrentPoll(g)
    /\ pc[g] = "sleep" => ENABLED SleepStep(g)
    /\ pc[g] = "download" => ENABLED ConcurrentDownload(g)

\* C14: the sleep between polls is a cooperative wait: while an invocation is
\* suspended in its sleep, every other invocation can take the step it is
\* waiting to take (be called, submit, poll, wake up, download and finish).
C14_SleepHoldsBackNoOtherFlow ==
    \A f \in Flows :
        pc[f] = "sleep" => \A g \in Flows \ {f} : CanTakeItsStep(g)

\* an invocation whose task stays "composing" is asleep after as many polls
\* as the model explores, and the other one has submitted, polled, downloaded
\* and returned, every one of its steps taken while the first was asleep
C14_Witness ==
    \E f \in Flows, g \in Flows :
        /\ f # g
        /\ pc[f] = "sleep" /\ AllComposing(f) /\ NumPolls(f) = MaxPolls
        /\ IsGenerateMusic(g) /\ Returned(g)
        /\ NumPolls(g) >= 2
        /\ trace[g][Len(trace[g])].op = "download"
        /\ trace[g][Len(trace[g])].overlap

\* the answer to a submission is 200 with a non-empty task_id in its body
Accepted(resp) ==
    /\ resp.ev = "response" /\ resp.json
    /\ resp.status = HTTP_OK
    /\ resp.task_id.given /\ resp.task_id.v # ""

\* C15: compose_track returns a handle exactly when the answer is 200 with a
\* non-empty task_id, and the handle holds that task_id; on an answer with
\* another status, or with the task_id absent or empty (also with status
\* 200), it raises the domain error and returns no handle.  A direct caller
\* gets just that.
C15_HandleExactlyOnAcceptedSubmission ==
    \A f \in Flows :
        \A i \in Ops(f, "submit") :
            LET e == trace[f][i]
            IN  /\ e.res.kind = "return" <=> Accepted(e.resp)
                /\ Accepted(e.resp) => e.res = ReturnTask(e.resp.task_id.v)
                /\ (e.resp.ev = "response" /\ ~Accepted(e.resp)) =>
                     /\ e.res.kind = "raise"
                     /\ DomainError(e.res.exc)
                     /\ e.res.value = NoValue
                /\ (entry[f] = "compose_track" /\ Ended(f)) => outcome[f] = e.res

\* compose_track called directly, answered 200 with an empty task_id
C15_Witness ==
    \E f \in Flows :
        /\ entry[f] = "compose_track" /\ RaisedTo(f)
        /\ trace[f][1].resp.status = HTTP_OK
        /\ trace[f][1].resp.task_id = SomeStr("")
        /\ DomainError(outcome[f].exc)

\* the message of e quotes the text t
Quotes(e, t) == \E k \in DOMAIN e.msg : e.msg[k] = t

\* on an answer other than 200 the poll raised the domain error, its message
\* quoting the response text, and returned no status
Non200PollRaises(e) ==
    (e.resp.ev = "response" /\ e.resp.status # HTTP_OK) =>
        /\ e.res.kind = "raise"
        /\ DomainError(e.res.exc)
        /\ Quotes(e.res.exc, e.resp.text)
        /\ e.res.value = NoValue

\* C16: get_track_status on a 200 answer returns the status and meta of the
\* JSON body; on every other answer it raises the domain error with the
\* response text and returns no status.
C16_StatusMirrorsEvery200Body ==
    \A f \in Flows :
        \A i \in Ops(f, "poll") :
            LET e == trace[f][i]
            IN  /\ (e.resp.ev = "response" /\ e.resp.status = HTTP_OK /\ e.resp.json) =>
                     e.res = ReturnStatus(e.resp.data.status, e.resp.data.meta)
                /\ Non200PollRaises(e)

\* C16, amended: get_track_status on a 200 answer whose JSON body holds a
\* status of the vocabulary returns the status and meta of the body; on every
\* answer other than 200 it raises the domain error with the response text
\* and returns no status.  A direct caller gets just that.
C16_StatusMirrorsValid200Body ==
    \A f \in Flows :
        \A i \in Ops(f, "poll") :
            LET e == trace[f][i]
            IN  /\ (e.resp.ev = "response" /\ e.resp.status = HTTP_OK /\ e.resp.json
                       /\ e.resp.data.status \in StatusVocabulary) =>
                     e.res = ReturnStatus(e.resp.data.status, e.resp.data.meta)
                /\ Non200PollRaises(e)
                /\ (entry[f] = "get_track_status" /\ Ended(f)) => outcome[f] = e.res

\* get_track_status called directly returned a status with its meta
C16_Witness ==
    \E f \in Flows :
        /\ entry[f] = "get_track_status" /\ Returned(f)
        /\ trace[f][1].resp.data.status = "completed"
        /\ outcome[f].value.status = "completed"
        /\ outcome[f].value.meta.keys = {"other"}

\* event i of f is a poll answered 200 with a status outside the vocabulary
UnknownStatusPoll(f, i) ==
    /\ trace[f][i].op = "poll"
    /\ trace[f][i].resp.ev = "response"
    /\ trace[f][i].resp.status = HTTP_OK /\ trace[f][i].resp.json
    /\ trace[f][i].resp.data.status \notin StatusVocabulary

\* C17: a 200 poll answer with a status outside the vocabulary fails the
\* validation of the status model, and get_track_status raises the domain
\* error for it: no status is returned, none is made up in its place, and the
\* poll loop gets the error, which ends the call.
C17_UnknownStatusRaisesDomainError ==
    \A f \in Flows :
        \A i \in DOMAIN trace[f] :
            UnknownStatusPoll(f, i) =>
                LET e == trace[f][i]
                IN  /\ e.inner = Raise(LibExc("ValidationError"))
                    /\ e.res.kind = "raise"
                    /\ DomainError(e.res.exc)
                    /\ e.res.value = NoValue
                    /\ i = Len(trace[f])
                    /\ RaisedTo(f)
                    /\ DomainError(outcome[f].exc)
                    /\ outcome[f].value = NoValue

\* generate_music got a status outside the vocabulary after a "composing" poll
C17_Witness ==
    \E f \in Flows :
        /\ IsGenerateMusic(f) /\ RaisedTo(f)
        /\ Len(trace[f]) = 4
        /\ UnknownStatusPoll(f, 4)
        /\ trace[f][4].resp.data.meta.track_url.given

\* event i of f is a poll answered 200 with a status value of the set S
PollSent(f, i, S) ==
    /\ trace[f][i].op = "poll"
    /\ trace[f][i].resp.ev = "response"
    /\ trace[f][i].resp.status = HTTP_OK /\ trace[f][i].resp.json
    /\ trace[f][i].resp.data.status \in S

\* the loop of f ended at poll i by returning the status the server sent;
\* watch_task_status handed it to its caller, generate_music went on to the
\* track-URL test and, the URL being there, to the download
TreatedAsSuccess(f, i) ==
    LET e == trace[f][i]
        n == Len(trace[f])
    IN  /\ e.res = ReturnStatus(e.resp.data.status, e.resp.data.meta)
        /\ entry[f] = "watch_task_status" =>
             (i = n /\ Returned(f) /\ outcome[f] = e.res)
        /\ IsGenerateMusic(f) =>
             IF HasTrackUrl(e.resp.data.meta)
             THEN IF i = n
                  THEN pc[f] = "download" /\ track_url[f] = e.resp.data.meta.track_url
                  ELSE /\ i + 1 = n
                       /\ trace[f][n].op = "download"
                       /\ trace[f][n].url = e.resp.data.meta.track_url
             ELSE i = n /\ outcome[f] = Raise(NoTrackUrl)

\* C18: every status value the server sends other than "composing" and
\* "failed", values outside the vocabulary included, ends the poll loop by
\* returning that status, and generate_music goes on to the track-URL test
\* and the download.
C18_EveryOtherStatusEndsTheLoopAsSuccess ==
    \A f \in Flows :
        \A i \in DOMAIN trace[f] :
            (RunsLoop(f) /\ PollSent(f, i, ServerStatuses \ {"composing", "failed"})) =>
                TreatedAsSuccess(f, i)

\* C18, amended: every status value of the vocabulary other than "composing"
\* and "failed" ends the poll loop by returning that status, and
\* generate_music goes on to the track-URL test and the download; a value
\* outside the vocabulary ends the loop with the domain error.
C18_EveryOtherKnownStatusEndsTheLoopAsSuccess ==
    \A f \in Flows :
        \A i \in DOMAIN trace[f] :
            /\ (RunsLoop(f) /\ PollSent(f, i, StatusVocabulary \ {"composing", "failed"})) =>
                 TreatedAsSuccess(f, i)
            /\ (RunsLoop(f) /\ PollSent(f, i, ServerStatuses \ StatusVocabulary)) =>
                 /\ i = Len(trace[f])
                 /\ RaisedTo(f)
                 /\ DomainError(outcome[f].exc)

\* generate_music returned a path after a status that is neither "completed"
\* nor "composing" nor "failed"
C18_Witness ==
    \E f \in Flows :
        /\ IsGenerateMusic(f) /\ Returned(f)
        /\ PollSent(f, Len(trace[f]) - 1, {"other"})
        /\ trace[f][Len(trace[f])].op = "download"

\* the download e got a 200 answer, received its body and stored it
StoredBody(e) ==
    /\ e.url.given /\ e.resp.mkdir
    /\ e.resp.ev = "response" /\ e.resp.status = HTTP_OK
    /\ e.resp.open /\ e.resp.read /\ e.resp.written = Len(e.resp.body)

\* the destination directory of the download e
DestinationDir(e) ==
    IF e.output_path.given /\ e.output_path.v # "" THEN e.output_path.v ELSE OUTPUT_DIR

\* C19: handle_track_file on a 200 answer stores exactly the bytes of the
\* body in the file {destinationDir}/{filename}.{format} (a filename that
\* already ends with .{format} is kept as it is), touches no other file and
\* returns that path; on an answer other than 200 it raises the domain error
\* and no file is created or written.  Stated of the invocation that runs
\* alone, so that every change of the files is its own.
C19_DownloadStoresTheBodyOnce ==
    \A i \in Ops(1, "download") :
        LET e == trace[1][i]
            path == e.res.value.path
            ext == <<".", e.format>>
        IN  /\ StoredBody(e) =>
                /\ e.res.kind = "return"
                /\ outcome[1].kind = "return" /\ outcome[1].value.path = path
                /\ Len(path) >= 4
                /\ path[1] = DestinationDir(e)
                /\ EndsWith(path, ext)
                /\ e.filename.given =>
                     \/ path = <<DestinationDir(e)>> \o e.filename.v \o ext
                     \/ EndsWith(e.filename.v, ext)
                          /\ path = <<DestinationDir(e)>> \o e.filename.v
                /\ path \in DOMAIN files
                /\ files[path] = e.resp.body
                /\ Len(files[path]) = Len(e.resp.body)
                /\ \A p \in DOMAIN files \ {path} :
                     p \in DOMAIN InitialFiles /\ files[p] = InitialFiles[p]
            /\ (e.url.given /\ e.resp.mkdir /\ e.resp.ev = "response"
                  /\ e.resp.status # HTTP_OK) =>
                /\ e.res.kind = "raise"
                /\ DomainError(e.res.exc)
                /\ files = InitialFiles

\* handle_track_file(url, "out", "song", "mp3") on a 200 answer with a body of
\* three bytes wrote them to out/song.mp3 and returned that path
C19_Witness ==
    /\ entry[1] = "handle_track_file" /\ Returned(1)
    /\ outcome[1].value.path = <<"out", "song", ".", "mp3">>
    /\ files[<<"out", "song", ".", "mp3">>] = <<"a", "b", "c">>
    /\ trace[1][1].resp.status = HTTP_OK

\* the composition request rejects the duration or the format f was given
RejectedRequest(f) ==
    \/ EffectiveDuration(args[f].duration) < MinDuration
    \/ EffectiveDuration(args[f].duration) > MaxDuration
    \/ EffectiveFormat(args[f].format) \notin Formats

C21_RequestConstruction ==
    \A f \in Flows :
        (entry[f] = "TrackRequest" /\ Ended(f)) =>
            LET d == args[f].duration
                fm == args[f].format
                dOk == ~d.given \/ (30 <= d.v /\ d.v <= 600)
                fmOk == ~fm.given \/ fm.v \in {"mp3", "wav", "ogg"}
            IN  /\ outcome[f].kind = "return" <=> (dOk /\ fmOk)
                /\ (dOk /\ fmOk) =>
                    /\ track_request[f].duration = (IF d.given THEN d.v ELSE 180)
                    /\ track_request[f].format = (IF fm.given THEN fm.v ELSE "mp3")
                /\ ~(dOk /\ fmOk) =>
                    /\ outcome[f] = Raise(LibExc("ValidationError"))
                    /\ track_request[f] = NoRequest

\* a request constructed without a duration and with the format "ogg"
C21_Witness ==
    \E f \in Flows :
        /\ entry[f] = "TrackRequest" /\ Returned(f)
        /\ ~args[f].duration.given
        /\ args[f].format = SomeStr("ogg")
        /\ track_request[f] = [duration |-> 180, format |-> "ogg"]

\* a request of the trace of flow f
Requests(f) == {trace[f][i] : i \in {j \in 1..Len(trace[f]) : trace[f][j].op \in {"submit", "poll", "download"}}}

\* C22: the submit request and every poll request carry the header
\* "Authorization: Bearer <api key>"; the request sent to the track URL
\* carries no Authorization header, in every run.
C22_TokenOnSubmitAndPollNeverOnDownload ==
    \A f \in Flows : \A ev \in Requests(f) :
        /\ ev.op \in {"submit", "poll"} => ev.auth = SomeName(<<"Bearer ", client.api_key>>)
        /\ ev.op = "download" => ev.auth = NoneName

\* a generate_music run that submitted, polled and downloaded from the
\* server's URL, one request of each kind in its trace
C22_Witness ==
    \E f \in Flows :
        /\ entry[f] = "generate_music" /\ Returned(f)
        /\ \E s, p, d \in Requests(f) :
            /\ s.op = "submit" /\ s.auth.given
            /\ p.op = "poll" /\ p.auth.given
            /\ d.op = "download" /\ ~d.auth.given /\ d.url = track_url[f]

\* the invocation f is under way
Started(f) == pc[f] \in {"compose", "poll", "sleep", "download"}
InPollLoop(f) == pc[f] \in {"poll", "sleep"}

\* the server does not answer "composing" for ever: of the polls of an
\* invocation that keeps polling, one fails or is answered with another status
ServerSettles(f) == SF_vars(LivePollSettles(f))

\* C23: every awaited call returning or failing, and the server eventually
\* answering a poll with a status other than "composing" (or a poll failing),
\* every generate_music call that has started eventually ends, returning a
\* path or raising; a call that never ends stays in the poll loop for ever.
C23_Termination ==
    \A f \in Flows :
        /\ ServerSettles(f) =>
              (Started(f) ~> (Ended(f) /\ outcome[f].kind \in {"return", "raise"}))
        /\ Started(f) ~> (Ended(f) \/ [](InPollLoop(f)))

\* a generate_music call that slept on a "composing" answer and then ended
\* with the path of the file
C23_Witness ==
    \E f \in Flows :
        /\ ~recording /\ entry[f] = "generate_music" /\ Returned(f)
        /\ \E i \in DOMAIN trace[f] : PollAnswered(f, i, "composing")
        /\ Ops(f, "sleep") # {}

\* the download events of f that returned a path
ReturnedDownloads(f) ==
    {ev \in Requests(f) : ev.op = "download" /\ ev.res.kind = "return"}

\* the name of the file a returned path leads to: the path without its directory
NameOf(path) == Tail(path)

\* C24: the name of the file handle_track_file writes ends with ".{format}";
\* a given filename that already ends with the literal suffix ".{format}" is
\* used unchanged, any other gets the suffix appended once, a name that ends
\* with the extension in another casing included; the rule applied to its
\* own result changes nothing.
C24_ExtensionRule ==
    \A f \in Flows : \A ev \in ReturnedDownloads(f) :
        LET suffix == <<".", ev.format>>
            name == NameOf(ev.res.value.path)
            again == [track_url |-> ev.url, output_path |-> ev.output_path,
                      filename |-> SomeName(name), format |-> ev.format]
        IN  /\ EndsWith(name, suffix)
            /\ (ev.filename.given /\ ev.filename.v # <<>>) =>
                  /\ EndsWith(ev.filename.v, suffix) => name = ev.filename.v
                  /\ ~EndsWith(ev.filename.v, suffix) => name = ev.filename.v \o suffix
            /\ \A t \in 0..MaxClock : FileName(again, t) = name
            /\ ev.res.value.path \in DOMAIN files

\* a download that was given the name song.MP3 for the format mp3 and wrote
\* the body to song.MP3.mp3
C24_Witness ==
    \E f \in Flows : \E ev \in ReturnedDownloads(f) :
        /\ ev.filename = SomeName(<<"song", ".", "MP3">>) /\ ev.format = "mp3"
        /\ NameOf(ev.res.value.path) = <<"song", ".", "MP3", ".", "mp3">>
        /\ ev.res.value.path \in DOMAIN files

\* the caller of f supplied a duration outside 30..600 or a format outside
\* mp3, wav, ogg
SuppliedInvalid(f) ==
    \/ args[f].duration.given /\ (args[f].duration.v < 30 \/ args[f].duration.v > 600)
    \/ args[f].format.given /\ args[f].format.v \notin {"mp3", "wav", "ogg"}

\* C25: generate_music submits nothing and fails for every caller-supplied
\* duration outside [30, 600] (0 and negative values included) and every
\* caller-supplied format outside {mp3, wav, ogg} (the empty string
\* included); the defaults are applied only to an argument that is not
\* supplied; the format of the request is the format of the file extension.
C25_NeverSubmitsInvalidArguments ==
    \A f \in Flows :
        IsGenerateMusic(f) =>
            /\ SuppliedInvalid(f) => (Ops(f, "submit") = {} /\ RaisedTo(f))
            /\ \A ev \in Requests(f) :
                /\ ev.op = "submit" =>
                      /\ ev.duration = IF args[f].duration.given THEN args[f].duration.v
                                       ELSE DEFAULT_DURATION
                      /\ ev.format = IF args[f].format.given THEN args[f].format.v
                                     ELSE DEFAULT_FORMAT
                /\ ev.op = "download" =>
                      \A sub \in Requests(f) : sub.op = "submit" => sub.format = ev.format

\* C25, what the code keeps: every request submitted carries a duration in
\* [30, 600] and a format of {mp3, wav, ogg}, and the download uses the
\* format of the request; a supplied value that Python takes for false (0,
\* "") is replaced by the default and submitted.
C25_SubmitsOnlyValidValues ==
    \A f \in Flows :
        IsGenerateMusic(f) =>
            \A ev \in Requests(f) :
                /\ ev.op = "submit" =>
                      /\ 30 <= ev.duration /\ ev.duration <= 600
                      /\ ev.format \in {"mp3", "wav", "ogg"}
                      /\ SuppliedInvalid(f) =>
                            \/ args[f].duration = SomeInt(0)
                            \/ args[f].format = SomeStr("")
                /\ ev.op = "download" =>
                      \A sub \in Requests(f) : sub.op = "submit" => sub.format = ev.format

\* generate_music(prompt, duration=0) submitted a request of 180 seconds
C25_ZeroDurationSubmitted ==
    \E f \in Flows : \E ev \in Requests(f) :
        /\ IsGenerateMusic(f) /\ args[f].duration = SomeInt(0)
        /\ ev.op = "submit" /\ ev.duration = DEFAULT_DURATION

\* event i of f is the poll watch_task_status returned from, and its status
\* carries the key track_url with the value null
NullUrlStatus(f, i) ==
    /\ trace[f][i].op = "poll"
    /\ trace[f][i].res.kind = "return"
    /\ trace[f][i].res.value.status \notin {"composing", "failed"}
    /\ "track_url" \in trace[f][i].res.value.meta.keys
    /\ ~trace[f][i].res.value.meta.track_url.given

\* C26: whenever generate_music calls handle_track_file the URL argument is
\* a present value, the track_url of the final status; a final status whose
\* meta has the key track_url with a null value is treated as a missing URL:
\* the domain error "No track URL", and no download.
C26_DownloadNeverCalledWithAbsentUrl ==
    \A f \in Flows :
        IsGenerateMusic(f) =>
            /\ \A ev \in Requests(f) : ev.op = "download" => ev.url.given
            /\ \A i \in DOMAIN trace[f] :
                NullUrlStatus(f, i) =>
                    /\ pc[f] # "download"
                    /\ Ops(f, "download") = {}
                    /\ Ended(f) => outcome[f] = Raise(NoTrackUrl)

\* C26, what the code keeps: the URL handed to handle_track_file is the value
\* found under track_url in the meta of the final status, null or not, and
\* the download is called only when the meta has that key.
C26_DownloadUsesTheValueOfTheFinalStatus ==
    \A f \in Flows :
        IsGenerateMusic(f) =>
            \A j \in DOMAIN trace[f] :
                trace[f][j].op = "download" =>
                    \E i \in 1..(j - 1) :
                        /\ trace[f][i].op = "poll" /\ trace[f][i].res.kind = "return"
                        /\ "track_url" \in trace[f][i].res.value.meta.keys
                        /\ trace[f][j].url = trace[f][i].res.value.meta.track_url

\* generate_music called handle_track_file with the URL None: the output
\* directory was made and the call ended with the wrapped error of the request
C26_DownloadCalledWithNone ==
    \E f \in Flows : \E ev \in Requests(f) :
        /\ IsGenerateMusic(f) /\ Ended(f)
        /\ ev.op = "download" /\ ~ev.url.given
        /\ outcome[f].kind = "raise" /\ outcome[f] # Raise(NoTrackUrl)

\* the downloads of f that raised
FailedDownloads(f) == {ev \in Requests(f) : ev.op = "download" /\ ev.res.kind = "raise"}

\* C27: whenever handle_track_file raises (an answer other than 200, a
\* connection failure before the answer, a failure while the body of a 200
\* answer is read) the destination file is neither created nor truncated nor
\* partially written: the files are those that were there before the call,
\* with their content.  Stated of the invocation that runs alone.
C27_FailedDownloadLeavesTheFileUntouched ==
    FailedDownloads(1) # {} => files = InitialFiles

\* C27, what the code keeps: a download that raised before the file was
\* opened (mkdir failed, the request raised, the answer was not 200, the open
\* itself failed) leaves the files as they were.
C27_FailureBeforeOpenLeavesTheFileUntouched ==
    \A ev \in FailedDownloads(1) :
        (~ev.resp.mkdir \/ ev.resp.ev = "raise" \/ ev.resp.status # HTTP_OK \/ ~ev.resp.open)
            => files = InitialFiles

\* the read of the body failed after a 200 answer: handle_track_file raised
\* and the file ./song.mp3, which held a track before the call, is empty
C27_ReadFailureTruncatedTheFile ==
    \E ev \in FailedDownloads(1) :
        /\ ev.resp.status = HTTP_OK /\ ~ev.resp.read
        /\ InitialFiles[<<OUTPUT_DIR, "song", ".", "mp3">>] = OldContent
        /\ files[<<OUTPUT_DIR, "song", ".", "mp3">>] = <<>>

\* the command line run has constructed its client, or failed to
ConstructionDone == cli.construction.kind # "none"
SomeKeyProvided == TruthyStr(cli.args.api_key) \/ cli.API_KEY # ""

\* the client is as BeatovenClient(api_key) of this run has to make it
KeyInvariant ==
    ConstructionDone =>
        /\ cli.construction.kind = "raise" <=> ~SomeKeyProvided
        /\ cli.construction.kind = "raise" =>
              /\ cli.construction.exc.type = "ValueError"
              /\ client.state = "none"
        /\ cli.construction.kind = "return" =>
              /\ client.state = "constructed"
              /\ client.api_key # ""
              /\ client.api_key = IF TruthyStr(cli.args.api_key) THEN cli.args.api_key.v
                                  ELSE cli.API_KEY
              /\ client.api_url = API_URL
        /\ \A f \in Flows : \A ev \in Requests(f) :
              ev.op \in {"submit", "poll"} =>
                  /\ client.state = "constructed"
                  /\ ev.auth.given
                  /\ ev.auth.v = <<"Bearer ", client.api_key>>
                  /\ ev.auth.v[2] # ""

\* no step changes the key or the URL of a constructed client
ClientNeverChanges == client.state = "constructed" => client' = client

C28_NoKeyWitness ==
    /\ ~SomeKeyProvided /\ cli.construction = Raise(LibExc("ValueError"))
    /\ Requests(1) = {}

\* main_async is over: it returned a code or an exception left it
CliOver == cli.pc \in {"exited", "escaped"}
\* client construction and generate_music both succeeded
RunSucceeded == cli.construction.kind = "return" /\ Returned(1)
\* the exception that ended the try of main_async, if one did
TryFailure ==
    IF cli.construction.kind = "raise" THEN cli.construction
    ELSE IF RaisedTo(1) THEN outcome[1] ELSE Pending

\* C29: main_async returns 0 exactly when client construction and
\* generate_music both succeed; 1 when generate_music raises the domain error
\* and when construction or generate_music raises another ordinary exception
\* (missing API key, request validation failure); 130 on a user interrupt; it
\* never returns 0 after a failure and lets no ordinary exception escape.
C29_ExitCode ==
    CliOver =>
        /\ (cli.pc = "exited" /\ cli.code = 0) <=> RunSucceeded
        /\ (TryFailure.kind = "raise" /\ IsInstance(TryFailure.exc, "Exception")
              /\ ~cli.interrupted) => (cli.pc = "exited" /\ cli.code = 1)
        /\ cli.interrupted => (cli.pc = "exited" /\ cli.code = 130)
        /\ cli.pc = "escaped" => ~IsInstance(cli.exc, "Exception")

\* C29, what the code keeps once the logger is set up: the code is 0 exactly
\* after a returned path, 1 after every ordinary exception of the try, 130
\* exactly when a KeyboardInterrupt is raised inside the try, and what
\* escapes the try is no ordinary exception (a cancellation).
C29_ExitCodeOfTheTry ==
    (CliOver /\ cli.construction.kind # "none") =>
        /\ (cli.pc = "exited" /\ cli.code = 0) <=> RunSucceeded
        /\ (TryFailure.kind = "raise" /\ IsInstance(TryFailure.exc, "Exception"))
              => (cli.pc = "exited" /\ cli.code = 1)
        /\ (cli.pc = "exited" /\ cli.code = 130)
              <=> (TryFailure.kind = "raise" /\ TryFailure.exc.type = "KeyboardInterrupt")
        /\ cli.pc = "escaped" => cli.exc.type = "CancelledError"
        /\ cli.pc = "exited" => cli.code \in {0, 1, 130}

\* --log-file names a file that cannot be opened: the OSError of setup_logger
\* left main_async, before the client was constructed
C29_LoggerErrorEscaped ==
    /\ cli.pc = "escaped" /\ cli.exc.type = "OSError"
    /\ TruthyStr(cli.args.log_file) /\ cli.construction.kind = "none"

\* the user interrupted the run and main_async returned no code: the
\* cancellation of the task left it
C29_InterruptEscapedAsCancellation ==
    /\ cli.interrupted /\ cli.pc = "escaped" /\ cli.exc.type = "CancelledError"

\* runs that ended with each of the codes: 0 after a download, 1 for the
\* missing key, 130 for a KeyboardInterrupt inside the try
C29_ExitedZero == cli.pc = "exited" /\ cli.code = 0 /\ RunSucceeded
C29_ExitedOneWithoutKey ==
    cli.pc = "exited" /\ cli.code = 1 /\ cli.construction = Raise(LibExc("ValueError"))
C29_ExitedOneOnValidation ==
    cli.pc = "exited" /\ cli.code = 1 /\ outcome[1] = Raise(LibExc("ValidationError"))
C29_Exited130 == cli.pc = "exited" /\ cli.code = 130 /\ cli.interrupted

====
